---- MODULE Spec2Model ----
(***************************************************************************)
(* Job control of cush (src/custom-shell.c): the job registry, the        *)
(* pipeline executor run_command, the status reconciler                    *)
(* handle_child_status, the SIGCHLD handler, the foreground waiter and the *)
(* job builtins, together with the child processes and the terminal they   *)
(* act on.                                                                 *)
(*                                                                         *)
(* The main flow is a program counter pc over the places where the SIGCHLD *)
(* handler can interleave; the handler is an action enabled only while     *)
(* SIGCHLD is unblocked.  A command line is drawn lazily: each pipeline    *)
(* and each stage is chosen when run_command reaches it.                   *)
(***************************************************************************)
EXTENDS Integers, Sequences, FiniteSets, TLC

\* ---------------------------------------------------------------- bounds
\* Job ids run over 1..MaxJid (the code's table has MAXJOBS - 1 usable ids).
MaxJid == 3
\* Process ids handed out by the system: 1..MaxPid, never reused.
MaxPid == 3
\* Processes spawned in the runs where the reconciler's reads of unrecorded
\* pids entries may hit a child's pid.
MaxNoisyPid == 2
\* Stages per pipeline and pipelines per command line.
MaxStages == 2
MaxPipes == 2
\* Command lines read before end of input.
MaxLines == 2

\* ------------------------------------------------------- program constants
\* sizeof(job->pids): the size of a pointer, the scan bound of the reconciler.
SizeofPids == 8
\* getpgrp(): the shell's own process group.
ShellPgrp == 0
\* NULL in jid2job, and the jid delete_job leaves in a freed job.
NULL == 0
FreedJid == -1
\* Content of an int field malloc left uninitialised.
UninitInt == -2
\* A process group id no process group has.
NoSuchPgid == -3

Jids == 1..MaxJid
Addrs == 1..MaxJid
Pids == 1..MaxPid
JobStatus == {"FOREGROUND", "BACKGROUND", "STOPPED", "NEEDSTERMINAL"}
TtyModes == {"cooked", "raw"}
\* The first word of a command line: the name of a builtin, or any other word
\* (a program name, a "!" designator).
Words == {"prog", "builtin"}
\* The two forms of history recall.
Designators == {"!n", "!-n"}

VARIABLES
    pc,         \* position of the main flow
    blocked,    \* SIGCHLD is blocked
    heap,       \* job records by address
    jid2job,    \* jid -> address of the job, or NULL
    job_list,   \* addresses linked in job_list, in list order
    list_corrupt, \* a job was pushed on job_list while already linked in it
    cur,        \* locals of run_command for the pipeline being executed
    waitJ,      \* argument of wait_for_job and where it returns to
    proc,       \* the child processes
    ttyOwner,   \* process group owning the terminal
    ttyModes,   \* current terminal modes
    shellTty,   \* the terminal state termstate_sample saved for the shell
    ev,         \* what the last step of the shell did (output, signals sent)
    lines,      \* command lines read so far
    history     \* the history list: the first word of every line read

vars == <<pc, blocked, heap, jid2job, job_list, list_corrupt, cur, waitJ, proc,
          ttyOwner, ttyModes, shellTty, ev, lines, history>>

\* ------------------------------------------------------------- structures
\* struct job.  pids holds the entries recorded so far, announced the number
\* of print_bg lines printed for the job.
FreedJob ==
    [jid |-> FreedJid, status |-> "UNINIT", num_processes_alive |-> 0,
     termStateIsSaved |-> FALSE, saved_tty_state |-> "none",
     pgid |-> UninitInt, pids |-> <<>>, announced |-> 0]

NoCur == [job |-> NULL, idx |-> 0, gid |-> 0, bg |-> FALSE, n |-> 0,
          pipeNo |-> 0, pid |-> 0]
NoWait == [job |-> NULL, ret |-> "none"]
NoProc == [st |-> "unborn", pgid |-> 0, pend |-> "none"]
NoEv == [op |-> "none", job |-> NULL, jid |-> 0, pgid |-> ShellPgrp,
         sig |-> "none", hit |-> {}, listed |-> {}, printed |-> {},
         snap |-> "none", obs |-> "none", pid |-> 0, report |-> "none",
         design |-> "none", n |-> 0, word |-> "none"]

Range(s) == {s[i] : i \in 1..Len(s)}
Min(a, b) == IF a < b THEN a ELSE b

\* ------------------------------------------------------------ job registry
\* get_job_from_jid: the address registered under jid, or NULL.
get_job_from_jid(jid) ==
    IF jid > 0 /\ jid <= MaxJid /\ jid2job[jid] # NULL THEN jid2job[jid] ELSE NULL

\* Addresses of the jobs the registry holds.
LiveJobs == {jid2job[j] : j \in {i \in Jids : jid2job[i] # NULL}}

\* malloc(sizeof *job): an address no live job occupies.
MallocJob == CHOOSE a \in Addrs : a \notin LiveJobs /\ \A b \in Addrs : b \notin LiveJobs => a <= b

\* A search of the table from its end.
LastFreeJid == CHOOSE i \in Jids : jid2job[i] = NULL /\ \A k \in Jids : jid2job[k] = NULL => i >= k

\* The id add_job gives out: the first i with jid2job[i] == NULL.
FirstFreeJid == CHOOSE i \in Jids : jid2job[i] = NULL /\ \A k \in Jids : jid2job[k] = NULL => i <= k

\* add_job's fresh record; status, pgid and the pids entries are not set.
NewJob(jid) ==
    [jid |-> jid, status |-> "UNINIT", num_processes_alive |-> 0,
     termStateIsSaved |-> FALSE, saved_tty_state |-> "none",
     pgid |-> UninitInt, pids |-> <<>>, announced |-> 0]

\* job_list links an element whose memory delete_job freed, or its links were
\* overwritten by a second push of the same element: traversing it is
\* undefined.
Hazard == list_corrupt \/ \E i \in 1..Len(job_list) : job_list[i] \notin LiveJobs

\* list_remove: unlink the address from job_list.
list_remove(list, a) == SelectSeq(list, LAMBDA x : x # a)

\* ---------------------------------------------------------------- terminal
\* termstate_give_terminal_back_to_shell as a state update on a record
\* holding owner, modes and shellTty.
GiveBack(s) == [s EXCEPT !.owner = ShellPgrp, !.modes = s.shellTty]
\* termstate_sample: remember the current modes as the shell's.
Sample(s) == [s EXCEPT !.shellTty = s.modes]

\* --------------------------------------------------------------- processes
Unreaped == {p \in Pids : proc[p].st \in {"running", "stopped", "zombie"}}
Pending == {p \in Pids : proc[p].pend # "none"}
GroupExists(g) == \E p \in Unreaped : proc[p].pgid = g
Groups == {proc[p].pgid : p \in Unreaped}
NextPid == CHOOSE p \in Pids : proc[p].st = "unborn" /\ \A q \in Pids : proc[q].st = "unborn" => p <= q
CanSpawn(cap) == \E p \in 1..cap : proc[p].st = "unborn"

\* killpg(g, sig): what the signal does to every process of group g.
Signalled(pr, g, sig) ==
    [p \in Pids |->
        IF pr[p].pgid # g \/ pr[p].st \notin {"running", "stopped"} THEN pr[p]
        ELSE CASE sig = "SIGKILL" -> [pr[p] EXCEPT !.st = "zombie", !.pend = "Signaled"]
               [] sig = "SIGSTOP" ->
                    IF pr[p].st = "running"
                    THEN [pr[p] EXCEPT !.st = "stopped", !.pend = "StopSTOP"]
                    ELSE pr[p]
               [] sig = "SIGTSTP" ->
                    IF pr[p].st = "running"
                    THEN [pr[p] EXCEPT !.st = "stopped", !.pend = "StopTSTP"]
                    ELSE pr[p]
               [] sig = "SIGINT" ->
                    IF pr[p].st = "running"
                    THEN [pr[p] EXCEPT !.st = "zombie", !.pend = "Signaled"]
                    ELSE pr[p]
               [] sig = "SIGCONT" -> [pr[p] EXCEPT !.st = "running", !.pend = "none"]
               [] OTHER -> pr[p]]
\* The processes a killpg reaches.
Receivers(pr, g) == {p \in Pids : pr[p].pgid = g /\ pr[p].st \in {"running", "stopped"}}

\* waitpid reporting child p: a zombie is reaped, a stop is reported once.
Reaped(pr, p) ==
    [pr EXCEPT ![p] = IF pr[p].st = "zombie"
                      THEN [st |-> "reaped", pgid |-> pr[p].pgid, pend |-> "none"]
                      ELSE [pr[p] EXCEPT !.pend = "none"]]

\* ------------------------------------------------------- status reconciler
StopObs == {"StopTSTP", "StopSTOP"}

\* The pids entries the scan "for (i = 0; i < sizeof(job->pids); i++)" reads
\* that hold recorded process ids.
Scanned(j) == {j.pids[i] : i \in 1..Min(Len(j.pids), SizeofPids)}

\* The scan reads entries past the recorded ones (not yet recorded, or past
\* the allocation) whenever fewer than sizeof(job->pids) are recorded.
ReadsGarbage(j) == Len(j.pids) < SizeofPids

\* WIFEXITED branch applied to the job at address a.
OnExited(a, s) ==
    LET t == IF s.heap[a].status = "FOREGROUND" THEN GiveBack(Sample(s)) ELSE s
    IN  [t EXCEPT !.heap[a].num_processes_alive = @ - 1]

\* WIFSIGNALED branch.
OnSignaled(a, s) == [s EXCEPT !.heap[a].num_processes_alive = @ - 1]

\* A WIFSTOPPED branch that leaves the terminal with the stopped job.
OnStoppedKeepsTerminal(a, sig, s) ==
    LET fg == s.heap[a].status = "FOREGROUND"
    IN  [s EXCEPT !.heap[a].saved_tty_state = IF fg THEN s.modes ELSE @,
                  !.heap[a].termStateIsSaved = IF fg THEN TRUE ELSE @,
                  !.heap[a].status = "STOPPED",
                  !.printed = IF sig = "StopTSTP" THEN @ \cup {a} ELSE @]

\* WIFSTOPPED branch; sig is the stop signal.
OnStopped(a, sig, s) ==
    LET fg == s.heap[a].status = "FOREGROUND"
        t  == [s EXCEPT !.heap[a].saved_tty_state = IF fg THEN s.modes ELSE @,
                        !.heap[a].termStateIsSaved = IF fg THEN TRUE ELSE @,
                        !.heap[a].status = "STOPPED",
                        !.printed = IF sig = "StopTSTP" THEN @ \cup {a} ELSE @]
    IN  GiveBack(t)

\* WIFCONTINUED branch.
OnContinued(a, s) ==
    IF s.heap[a].status \in {"STOPPED", "NEEDSTERMINAL"}
    THEN [s EXCEPT !.heap[a].status = "BACKGROUND"]
    ELSE s

ApplyObs(a, obs, s) ==
    CASE obs = "Exited"    -> OnExited(a, s)
      [] obs = "Signaled"  -> OnSignaled(a, s)
      [] obs \in StopObs   -> OnStopped(a, obs, s)
      [] obs = "Continued" -> OnContinued(a, s)
      [] OTHER             -> s

\* The loop over job_list: every job whose scan matches (set M) gets the
\* observation applied; the loop does not stop at the first match.
RECURSIVE ScanJobs(_, _, _, _)
ScanJobs(list, obs, M, s) ==
    IF list = <<>> THEN s
    ELSE ScanJobs(Tail(list), obs, M,
                  IF Head(list) \in M THEN ApplyObs(Head(list), obs, s) ELSE s)

\* Jobs of job_list whose scan finds pid among the recorded entries.
Owners(pid) == {a \in Range(job_list) \cap LiveJobs : pid \in Scanned(heap[a])}
\* Jobs whose scan reads unrecorded memory, which may hold any value.
GarbageCandidates(pid) ==
    {a \in Range(job_list) \cap LiveJobs : pid \notin Scanned(heap[a]) /\ ReadsGarbage(heap[a])}

\* handle_child_status(pid, status).  G is the set of jobs whose garbage
\* entries equal pid, st the value the uninitialised status of such a job holds.
\* report is what the function prints about a pid it cannot place: the
\* message for an empty job_list; the message of "if (!job)" is never printed,
\* list_entry of a linked element is not NULL.
handle_child_status(pid, obs, G, st) ==
    LET h0 == [a \in Addrs |-> IF a \in DOMAIN st THEN [heap[a] EXCEPT !.status = st[a]]
                               ELSE heap[a]]
        s0 == [heap |-> h0, owner |-> ttyOwner, modes |-> ttyModes,
               shellTty |-> shellTty, printed |-> {}, report |-> "none"]
    IN  IF job_list = <<>> THEN [s0 EXCEPT !.report = "job list is empty"]
        ELSE ScanJobs(SelectSeq(job_list, LAMBDA a : a \in LiveJobs), obs,
                      Owners(pid) \cup G, s0)

\* The state change of one waitpid result fed to the reconciler.
Reconcile(p, G, st, op) ==
    LET obs == proc[p].pend
        s == handle_child_status(p, obs, G, st)
    IN  /\ pc' = pc
        /\ heap' = s.heap
        /\ ttyOwner' = s.owner
        /\ ttyModes' = s.modes
        /\ shellTty' = s.shellTty
        /\ proc' = Reaped(proc, p)
        /\ ev' = [NoEv EXCEPT !.op = op, !.pid = p, !.obs = obs,
                              !.hit = Owners(p) \cup G, !.printed = s.printed,
                              !.report = s.report]

\* The sets of jobs whose unrecorded entries may equal pid: any, when the
\* memory read holds arbitrary values (noisy), none when it holds no pid.
GarbageMatches(pid, noisy) == IF noisy THEN SUBSET GarbageCandidates(pid) ELSE {{}}

\* The choices an uninitialised read leaves open, for child p.
WithGarbage(p, op, noisy) ==
    \E G \in GarbageMatches(p, noisy) :
        \E st \in [{a \in G : heap[a].status = "UNINIT"} -> JobStatus] :
            Reconcile(p, G, st, op)

\* ------------------------------------------------------------ environment
\* Children change state at any time, but the shell can tell when only while
\* it sits in a blocking call (readline, waitpid) or lets SIGCHLD through:
\* a change during a blocked, non-blocking stretch of run_command is taken at
\* the stretch's end.
Running == pc # "dead" /\ (~blocked \/ pc \in {"readline", "wait"})

\* What the shell's own steps leave alone.
ShellSame ==
    /\ ev' = NoEv
    /\ UNCHANGED <<pc, blocked, heap, jid2job, job_list, list_corrupt, cur, waitJ, lines, history>>

\* A running child exits.
ChildExit(p) ==
    /\ Running /\ proc[p].st = "running"
    /\ proc' = [proc EXCEPT ![p].st = "zombie", ![p].pend = "Exited"]
    /\ ShellSame
    /\ UNCHANGED <<ttyOwner, ttyModes, shellTty>>

\* The user types the stop key: SIGTSTP to the terminal's foreground group.
KeyboardStop ==
    /\ Running /\ ttyOwner # ShellPgrp
    /\ \E p \in Pids : proc[p].pgid = ttyOwner /\ proc[p].st = "running"
    /\ proc' = Signalled(proc, ttyOwner, "SIGTSTP")
    /\ ShellSame
    /\ UNCHANGED <<ttyOwner, ttyModes, shellTty>>

\* The user types the interrupt key: SIGINT to the terminal's foreground
\* group, whose running processes die of it.
KeyboardInterrupt ==
    /\ Running /\ ttyOwner # ShellPgrp
    /\ \E p \in Pids : proc[p].pgid = ttyOwner /\ proc[p].st = "running"
    /\ proc' = Signalled(proc, ttyOwner, "SIGINT")
    /\ ShellSame
    /\ UNCHANGED <<ttyOwner, ttyModes, shellTty>>

\* A running process of the foreground group changes the terminal modes.
ChildSetsTty(m) ==
    /\ Running /\ ttyOwner # ShellPgrp /\ m # ttyModes
    /\ \E p \in Pids : proc[p].pgid = ttyOwner /\ proc[p].st = "running"
    /\ ttyModes' = m
    /\ ShellSame
    /\ UNCHANGED <<proc, ttyOwner, shellTty>>

\* ------------------------------------------------------- end of the shell
\* The shell process ends (exit, abort, fatal error, fault): nothing of its
\* state is left.
Die(op) ==
    /\ pc' = "dead"
    /\ ev' = op
    /\ blocked' = FALSE
    /\ heap' = [a \in Addrs |-> FreedJob]
    /\ jid2job' = [j \in Jids |-> NULL]
    /\ job_list' = <<>>
    /\ list_corrupt' = FALSE
    /\ cur' = NoCur
    /\ waitJ' = NoWait
    /\ proc' = [p \in Pids |-> NoProc]
    /\ ttyOwner' = ShellPgrp
    /\ ttyModes' = "cooked"
    /\ shellTty' = "cooked"
    /\ lines' = lines
    /\ history' = <<>>

\* -------------------------------------------------------- SIGCHLD handler
\* One waitpid(-1, WUNTRACED|WNOHANG) result of the handler's loop.  With a
\* freed job still linked in job_list the traversal reads freed memory: it
\* either faults or goes on over the live jobs.
sigchld_handler(noisy) ==
    /\ Running /\ ~blocked
    /\ \E p \in Pending :
          \/ /\ WithGarbage(p, "sigchld", noisy)
             /\ UNCHANGED <<blocked, jid2job, job_list, list_corrupt, cur, waitJ, lines, history>>
          \/ /\ Hazard
             /\ Die([NoEv EXCEPT !.op = "crash"])

\* ------------------------------------------------------------------- main
\* Top of the read loop: signal_unblock, then the two assertions.
TopOfLoop ==
    /\ pc = "top"
    /\ IF ttyOwner = ShellPgrp
       THEN /\ blocked' = FALSE
            /\ pc' = "readline"
            /\ ev' = [NoEv EXCEPT !.op = "prompt"]
            /\ UNCHANGED <<heap, jid2job, job_list, list_corrupt, cur, waitJ, proc,
                           ttyOwner, ttyModes, shellTty, lines, history>>
       ELSE Die([NoEv EXCEPT !.op = "assert_tty"])

\* readline returns NULL: the loop ends and main returns 0.
ReadEOF ==
    /\ pc = "readline"
    /\ Die([NoEv EXCEPT !.op = "eof"])

\* A non-empty command line with first word w was read: add_history, then
\* run_command, which starts with termstate_sample and signal_block.
ReadLine(w) ==
    /\ pc = "readline"
    /\ lines < MaxLines
    /\ lines' = lines + 1
    /\ history' = Append(history, w)
    /\ shellTty' = ttyModes
    /\ blocked' = TRUE
    /\ cur' = [NoCur EXCEPT !.pipeNo = 1]
    /\ pc' = "pipeline"
    /\ ev' = [NoEv EXCEPT !.op = "run_command"]
    /\ UNCHANGED <<heap, jid2job, job_list, list_corrupt, waitJ, proc, ttyOwner, ttyModes>>

\* delete_job on a registry r = [heap, jid2job].
delete_job(r, a) ==
    [heap |-> [r.heap EXCEPT ![a] = FreedJob],
     jid2job |-> [r.jid2job EXCEPT ![r.heap[a].jid] = NULL]]

RECURSIVE delete_all(_, _)
delete_all(r, as) ==
    IF as = {} THEN r
    ELSE LET a == CHOOSE x \in as : TRUE IN delete_all(delete_job(r, a), as \ {a})

\* Head of the loop over the pipelines: add_job and the malloc of pids, for a
\* pipeline of n stages, background or not.
add_job(n, bg) ==
    /\ pc = "pipeline"
    /\ IF \A i \in Jids : jid2job[i] # NULL
       THEN Die([NoEv EXCEPT !.op = "abort_maxjobs"])
       ELSE LET a == MallocJob
                jid == FirstFreeJid
            IN  /\ heap' = [heap EXCEPT ![a] = NewJob(jid)]
                /\ jid2job' = [jid2job EXCEPT ![jid] = a]
                /\ job_list' = IF a \in Range(job_list) THEN job_list ELSE Append(job_list, a)
                /\ list_corrupt' = (list_corrupt \/ a \in Range(job_list))
                /\ cur' = [cur EXCEPT !.job = a, !.idx = 0, !.gid = 0, !.bg = bg,
                                      !.n = n, !.pid = 0]
                /\ pc' = "stage"
                /\ ev' = [NoEv EXCEPT !.op = "add_job", !.job = a, !.jid = jid]
                /\ UNCHANGED <<blocked, waitJ, proc, ttyOwner, ttyModes, shellTty, lines, history>>

\* A return from run_command to main; unblock tells whether signal_unblock
\* precedes it.
Return(unblock, op) ==
    /\ pc' = "cleanup"
    /\ blocked' = (blocked /\ ~unblock)
    /\ cur' = NoCur
    /\ waitJ' = NoWait
    /\ ev' = op
    /\ UNCHANGED <<job_list, list_corrupt, lines, history>>

\* Every stage starts with termstate_sample.
StageStart ==
    /\ pc = "stage"
    /\ shellTty' = ttyModes

\* The first stage of a command line runs the line's first word, the word
\* add_history stored last.
FirstWord(w) == (cur.pipeNo = 1 /\ cur.idx = 0) => history[Len(history)] = w

\* jobs: print every job of jid2job.
jobs_builtin ==
    /\ StageStart
    /\ FirstWord("builtin")
    /\ Return(TRUE, [NoEv EXCEPT !.op = "jobs",
           !.listed = LiveJobs])
    /\ UNCHANGED <<heap, jid2job, proc, ttyOwner, ttyModes>>

\* cd and history: no effect on jobs, processes or terminal.
other_builtin ==
    /\ StageStart
    /\ FirstWord("builtin")
    /\ Return(TRUE, [NoEv EXCEPT !.op = "builtin"])
    /\ UNCHANGED <<heap, jid2job, proc, ttyOwner, ttyModes>>

\* exit: delete every job, then exit(0).
exit_builtin ==
    /\ pc = "stage"
    /\ FirstWord("builtin")
    /\ Die([NoEv EXCEPT !.op = "exit"])

\* A "!" stage that is no valid event designator: an error and a plain
\* return, SIGCHLD still blocked.
bad_recall ==
    /\ StageStart
    /\ FirstWord("prog")
    /\ Return(FALSE, [NoEv EXCEPT !.op = "bad_recall"])
    /\ UNCHANGED <<heap, jid2job, proc, ttyOwner, ttyModes>>

\* The values an uninitialised pgid may hold.
PgidValues(g) == IF g = UninitInt THEN {NoSuchPgid} \cup Groups ELSE {g}
\* The values an uninitialised status may hold.
StatusValues(st) == IF st = "UNINIT" THEN JobStatus ELSE {st}

\* An fg that always passes NULL.
FgNoSnapshot(j) == "none"

\* The snapshot fg_builtin passes to termstate_give_terminal_to ("none": NULL).
FgSnapshot(j) == IF j.termStateIsSaved THEN j.saved_tty_state ELSE "none"

\* fg <arg>, up to and including print_job: lookup, status, terminal handoff.
\* termstate_give_terminal_to ends the shell when tcsetpgrp fails.
fg_builtin(arg) ==
    /\ StageStart
    /\ FirstWord("builtin")
    /\ LET a == get_job_from_jid(arg) IN
       IF a = NULL
       THEN /\ Return(TRUE, [NoEv EXCEPT !.op = "fg_nojob"])
            /\ UNCHANGED <<heap, jid2job, proc, ttyOwner, ttyModes>>
       ELSE \E g \in PgidValues(heap[a].pgid) :
            LET snap == FgSnapshot(heap[a]) IN
            IF GroupExists(g)
            THEN /\ heap' = [heap EXCEPT ![a].status = "FOREGROUND", ![a].pgid = g,
                                         ![a].termStateIsSaved = FALSE]
                 /\ ttyOwner' = g
                 /\ ttyModes' = IF snap = "none" THEN ttyModes ELSE snap
                 /\ pc' = "fg_cont"
                 /\ cur' = NoCur
                 /\ waitJ' = [job |-> a, ret |-> "builtin"]
                 /\ ev' = [NoEv EXCEPT !.op = "fg", !.job = a, !.jid = arg,
                                       !.pgid = g, !.snap = snap]
                 /\ UNCHANGED <<blocked, jid2job, job_list, list_corrupt, proc, lines, history>>
            ELSE Die([NoEv EXCEPT !.op = "fatal_tcsetpgrp"])

\* wait_for_job's entry assertion signal_is_blocked(SIGCHLD), after a killpg
\* of SIGCONT to group g: the loop is reached or the shell aborts.
ContinueAndWait(g) ==
    IF ~GroupExists(g)
    THEN Die([NoEv EXCEPT !.op = "fatal_killpg"])
    ELSE IF ~blocked
    THEN Die([NoEv EXCEPT !.op = "assert_blocked", !.job = waitJ.job, !.pgid = g,
                           !.sig = "SIGCONT", !.hit = Receivers(proc, g)])
    ELSE /\ proc' = Signalled(proc, g, "SIGCONT")
         /\ heap' = [heap EXCEPT ![waitJ.job].pgid = g]
         /\ pc' = "wait"
         /\ ev' = [NoEv EXCEPT !.op = "sigcont", !.job = waitJ.job, !.pgid = g,
                               !.sig = "SIGCONT", !.hit = Receivers(proc, g)]
         /\ UNCHANGED <<blocked, jid2job, job_list, list_corrupt, cur, waitJ,
                        ttyOwner, ttyModes, shellTty, lines, history>>

\* fg, continued: killpg(pgid, SIGCONT), then wait_for_job.
fg_continue ==
    /\ pc = "fg_cont"
    /\ ContinueAndWait(heap[waitJ.job].pgid)

\* bg <arg>, up to and including print_job.
bg_builtin(arg) ==
    /\ StageStart
    /\ FirstWord("builtin")
    /\ LET a == get_job_from_jid(arg) IN
       IF a = NULL
       THEN /\ Return(TRUE, [NoEv EXCEPT !.op = "bg_nojob"])
            /\ UNCHANGED <<heap, jid2job, proc, ttyOwner, ttyModes>>
       ELSE \E st \in StatusValues(heap[a].status) :
            IF st # "STOPPED"
            THEN /\ heap' = [heap EXCEPT ![a].status = st]
                 /\ Return(TRUE, [NoEv EXCEPT !.op = "bg_running"])
                 /\ UNCHANGED <<jid2job, proc, ttyOwner, ttyModes>>
            ELSE /\ heap' = [heap EXCEPT ![a].status = "BACKGROUND"]
                 /\ pc' = "bg_cont"
                 /\ cur' = NoCur
                 /\ waitJ' = [job |-> a, ret |-> "builtin"]
                 /\ ev' = [NoEv EXCEPT !.op = "bg", !.job = a, !.jid = arg]
                 /\ UNCHANGED <<blocked, jid2job, job_list, list_corrupt, proc,
                                ttyOwner, ttyModes, lines, history>>

\* bg, continued: killpg(pgid, SIGCONT), then wait_for_job.
bg_continue ==
    /\ pc = "bg_cont"
    /\ \E g \in PgidValues(heap[waitJ.job].pgid) : ContinueAndWait(g)

\* A kill(2) of the first recorded process instead of a killpg of the group.
KillFirstOnly(j) ==
    IF j.num_processes_alive > 0 THEN Receivers(proc, j.pgid) \cap {j.pids[1]} ELSE {}

\* The processes one kill or stop call signals: killpg on the job's group,
\* once per process counted alive.
KillTargets(j) ==
    IF j.num_processes_alive > 0 THEN Receivers(proc, j.pgid) ELSE {}

\* The status kill_builtin and stop_builtin leave the job with.
StatusAfterSignal(sig) == "STOPPED"

\* kill <arg> (sig = SIGKILL) and stop <arg> (sig = SIGSTOP): set the status
\* and signal the group num_processes_alive times.
kill_or_stop(op, nojob, sig, arg) ==
    /\ StageStart
    /\ FirstWord("builtin")
    /\ LET a == get_job_from_jid(arg) IN
       IF a = NULL
       THEN /\ Return(TRUE, [NoEv EXCEPT !.op = nojob])
            /\ UNCHANGED <<heap, jid2job, proc, ttyOwner, ttyModes>>
       ELSE /\ heap' = [heap EXCEPT ![a].status = StatusAfterSignal(sig)]
            /\ proc' = [p \in Pids |-> IF p \in KillTargets(heap[a])
                                       THEN Signalled(proc, proc[p].pgid, sig)[p]
                                       ELSE proc[p]]
            /\ Return(TRUE, [NoEv EXCEPT !.op = op, !.job = a, !.jid = arg,
                                         !.pgid = heap[a].pgid, !.sig = sig,
                                         !.hit = KillTargets(heap[a])])
            /\ UNCHANGED <<jid2job, ttyOwner, ttyModes>>

kill_builtin(arg) == kill_or_stop("kill", "kill_nojob", "SIGKILL", arg)
stop_builtin(arg) == kill_or_stop("stop", "stop_nojob", "SIGSTOP", arg)

\* ------------------------------------------------------ pipeline executor
\* posix_spawnp succeeds for the stage: a new process in its own group
\* (first stage) or in the group of the first stage; a foreground stage takes
\* the terminal for its group as part of the spawn.
SpawnGroup(p) == IF cur.idx = 0 THEN p ELSE cur.gid

Spawn(cap, e) ==
    /\ StageStart
    /\ CanSpawn(cap)
    /\ cur.idx = 0 \/ GroupExists(cur.gid)
    /\ LET p == NextPid IN
       /\ proc' = [proc EXCEPT ![p] = [st |-> "running", pgid |-> SpawnGroup(p),
                                       pend |-> "none"]]
       /\ ttyOwner' = IF cur.bg THEN ttyOwner ELSE SpawnGroup(p)
       /\ cur' = [cur EXCEPT !.pid = p]
       /\ ev' = [e EXCEPT !.op = "spawn", !.job = cur.job, !.pid = p]
    /\ pc' = "record"
    /\ UNCHANGED <<blocked, heap, jid2job, job_list, list_corrupt, waitJ, ttyModes, lines, history>>

\* A stage that names a program: the spawn succeeds.
spawn_stage(cap) == FirstWord("prog") /\ Spawn(cap, NoEv)

\* posix_spawnp fails (no such program, or the group to join is gone), or
\* pipe2 fails for a stage that is not the last: perror and signal_unblock,
\* before delete_job.
LaunchFails(what, e) ==
    /\ StageStart
    /\ what = "pipe_failed" => cur.idx + 1 < cur.n
    /\ blocked' = FALSE
    /\ pc' = what
    /\ ev' = [e EXCEPT !.op = what, !.job = cur.job]
    /\ UNCHANGED <<heap, jid2job, job_list, list_corrupt, cur, waitJ, proc, ttyOwner,
                   ttyModes, lines, history>>

\* A stage that names a program: the launch fails.
launch_fails(what) == FirstWord("prog") /\ LaunchFails(what, NoEv)

\* --------------------------------------------------------- history recall
\* cmd_history[i] != NULL, for the array history_list() returns: the entries
\* of the retained lines, then NULL.  Index -1 lies before the array; z tells
\* whether the word found there is non-zero.
HistNonNull(i, z) == IF i = -1 THEN z ELSE i \in 0..(Len(history) - 1)

\* "int size = -1; while (cmd_history[size] != NULL) size++;"
RECURSIVE HistCount(_, _)
HistCount(size, z) == IF HistNonNull(size, z) THEN HistCount(size + 1, z) ELSE size

\* size after "if (size != -1) size++;"; -1 where the code prints
\* "Improper n-value" and returns.
RecallSize(z) == LET size == HistCount(-1, z) IN IF size # -1 THEN size + 1 ELSE -1

\* The checks that end a recall with an error: the size, and for "!n" the
\* test "n >= size || n < 1"; "!-n" has no test of n.
RecallRejected(d, n, size) == size = -1 \/ (d = "!n" /\ (n >= size \/ n < 1))

\* The index of the entry whose line is read.
RecallIndex(d, n, size) == IF d = "!-n" THEN size - n - 2 ELSE n - 1

\* The indices that hold an entry.
Retained == 0..(Len(history) - 1)

\* The first word strtok finds in the line of entry i: the word stored for a
\* retained line, anything for memory that is no entry.
RecalledWords(i) == IF i \in Retained THEN {history[i + 1]} ELSE Words

\* A "!n" or "!-n" stage the checks let through, resolved to word w.
Recalls(d, n, w) ==
    /\ FirstWord("prog")
    /\ \E z \in BOOLEAN :
          /\ ~RecallRejected(d, n, RecallSize(z))
          /\ w \in RecalledWords(RecallIndex(d, n, RecallSize(z)))

\* The record of a recall in ev.
RecallEv(d, n, w) == [NoEv EXCEPT !.design = d, !.n = n, !.word = w]

\* The recall ends with "Improper n-value" and a plain return, SIGCHLD still
\* blocked.
recall_rejected(d, n) ==
    /\ StageStart
    /\ FirstWord("prog")
    /\ \E z \in BOOLEAN : RecallRejected(d, n, RecallSize(z))
    /\ Return(FALSE, [RecallEv(d, n, "none") EXCEPT !.op = "recall_rejected"])
    /\ UNCHANGED <<heap, jid2job, proc, ttyOwner, ttyModes>>

\* The entry read lies outside the array and what is found there is no
\* readable line: the shell faults.
recall_faults(d, n) ==
    /\ pc = "stage"
    /\ FirstWord("prog")
    /\ \E z \in BOOLEAN :
          /\ ~RecallRejected(d, n, RecallSize(z))
          /\ RecallIndex(d, n, RecallSize(z)) \notin Retained
    /\ Die([RecallEv(d, n, "none") EXCEPT !.op = "crash"])

\* The recall rewrites argv; control falls through to pipe2 and posix_spawnp
\* with the recalled word, past the builtin tests.
recall_spawn(d, n, cap) ==
    /\ pc = "stage"
    /\ \E w \in Words : Recalls(d, n, w) /\ Spawn(cap, RecallEv(d, n, w))

\* The same, and pipe2 or posix_spawnp fails for the recalled word.
recall_fails(d, n, what) ==
    /\ pc = "stage"
    /\ \E w \in Words : Recalls(d, n, w) /\ LaunchFails(what, RecallEv(d, n, w))

\* The rest of a failure path: delete_job (the job stays linked in job_list),
\* after a spawn failure also termstate_give_terminal_back_to_shell; return.
abandon_job ==
    /\ pc \in {"spawn_failed", "pipe_failed"}
    /\ LET r == delete_job([heap |-> heap, jid2job |-> jid2job], cur.job)
       IN  heap' = r.heap /\ jid2job' = r.jid2job
    /\ ttyOwner' = IF pc = "spawn_failed" THEN ShellPgrp ELSE ttyOwner
    /\ ttyModes' = IF pc = "spawn_failed" THEN shellTty ELSE ttyModes
    /\ Return(FALSE, [NoEv EXCEPT !.op = "delete_job", !.job = cur.job])
    /\ UNCHANGED <<proc, shellTty>>

\* The job record after the stage's pid is recorded: pgid for the first
\* stage, pids[idx++], num_processes_alive++, and the status; a background
\* pipeline prints its announcement here, once per stage.
Recorded(j, pid, first, bg) ==
    [j EXCEPT !.pgid = IF first THEN pid ELSE @,
              !.pids = Append(@, pid),
              !.num_processes_alive = @ + 1,
              !.status = IF bg THEN "BACKGROUND" ELSE "FOREGROUND",
              !.announced = IF bg THEN @ + 1 ELSE @]

\* After a successful spawn: record the pid; after the last stage,
\* signal_block and wait_for_job.
record_pid ==
    /\ pc = "record"
    /\ heap' = [heap EXCEPT ![cur.job] = Recorded(@, cur.pid, cur.idx = 0, cur.bg)]
    /\ ev' = [NoEv EXCEPT !.op = IF cur.bg THEN "print_bg" ELSE "record",
                          !.job = cur.job, !.jid = heap[cur.job].jid, !.pid = cur.pid]
    /\ IF cur.idx + 1 = cur.n
       THEN /\ blocked' = TRUE
            /\ pc' = "wait"
            /\ waitJ' = [job |-> cur.job, ret |-> "run"]
            /\ cur' = [NoCur EXCEPT !.pipeNo = cur.pipeNo]
       ELSE /\ pc' = "stage"
            /\ cur' = [cur EXCEPT !.idx = @ + 1, !.pid = 0,
                                  !.gid = IF cur.idx = 0 THEN cur.pid ELSE @]
            /\ UNCHANGED <<blocked, waitJ>>
    /\ UNCHANGED <<jid2job, job_list, list_corrupt, proc, ttyOwner, ttyModes, shellTty, lines, history>>

\* ------------------------------------------------------ foreground waiter
\* The loop condition of wait_for_job.
MustWait(j) == j.status = "FOREGROUND" /\ j.num_processes_alive > 0

\* One iteration: the blocking waitpid(-1, WUNTRACED) reports a child.
wait_reap(noisy) ==
    /\ pc = "wait"
    /\ MustWait(heap[waitJ.job])
    /\ \E p \in Pending :
          \/ /\ WithGarbage(p, "waitpid", noisy)
             /\ UNCHANGED <<blocked, jid2job, job_list, list_corrupt, cur, waitJ, lines, history>>
          \/ /\ Hazard
             /\ Die([NoEv EXCEPT !.op = "crash"])

\* waitpid fails with ECHILD: utils_fatal_error.
wait_fatal ==
    /\ pc = "wait"
    /\ MustWait(heap[waitJ.job])
    /\ Unreaped = {}
    /\ Die([NoEv EXCEPT !.op = "fatal_waitpid", !.job = waitJ.job])

\* The loop ends: terminal back to the shell, signal_unblock.  Called from a
\* builtin, run_command returns; called for a pipeline, run_command goes on
\* with the next pipeline of the command line or leaves its loop.
wait_return(more) ==
    /\ pc = "wait"
    /\ ~MustWait(heap[waitJ.job])
    /\ ttyOwner' = ShellPgrp
    /\ ttyModes' = shellTty
    /\ blocked' = FALSE
    /\ ev' = [NoEv EXCEPT !.op = "wait_return", !.job = waitJ.job]
    /\ waitJ' = NoWait
    /\ IF waitJ.ret = "run" /\ more /\ cur.pipeNo < MaxPipes
       THEN /\ pc' = "pipeline"
            /\ cur' = [NoCur EXCEPT !.pipeNo = cur.pipeNo + 1]
       ELSE /\ pc' = "cleanup"
            /\ cur' = NoCur
    /\ UNCHANGED <<heap, jid2job, job_list, list_corrupt, proc, shellTty, lines, history>>

\* ---------------------------------------------------------------- cleanup
\* The jobs main's loop after run_command removes.
Finished == {a \in LiveJobs : heap[a].num_processes_alive = 0}

\* main, after run_command: list_remove and delete_job every job with
\* num_processes_alive == 0.  Unlinking next to a freed element is undefined.
cleanup ==
    /\ pc = "cleanup"
    /\ \/ /\ LET r == delete_all([heap |-> heap, jid2job |-> jid2job], Finished)
             IN  heap' = r.heap /\ jid2job' = r.jid2job
          /\ job_list' = SelectSeq(job_list, LAMBDA a : a \notin Finished)
          /\ pc' = "top"
          /\ ev' = [NoEv EXCEPT !.op = "cleanup", !.hit = Finished]
          /\ UNCHANGED <<blocked, list_corrupt, cur, waitJ, proc, ttyOwner, ttyModes,
                         shellTty, lines, history>>
       \/ /\ Hazard /\ Finished # {}
          /\ Die([NoEv EXCEPT !.op = "crash"])

\* ---------------------------------------------------------- specification
Init ==
    /\ pc = "top"
    /\ blocked = FALSE
    /\ heap = [a \in Addrs |-> FreedJob]
    /\ jid2job = [j \in Jids |-> NULL]
    /\ job_list = <<>>
    /\ list_corrupt = FALSE
    /\ cur = NoCur
    /\ waitJ = NoWait
    /\ proc = [p \in Pids |-> NoProc]
    /\ ttyOwner = ShellPgrp
    /\ ttyModes = "cooked"
    /\ shellTty = "cooked"
    /\ ev = NoEv
    /\ lines = 0
    /\ history = <<>>

\* Job ids a user may type: every id of the table and 0, which no job has.
Args == 0..MaxJid

\* The numbers a user may put in a history designator: 0, every line read
\* and one more.
RecallArgs == 0..(MaxLines + 1)

\* The steps of the shell and of its children that do not depend on what
\* unrecorded memory holds.
Common ==
    \/ TopOfLoop
    \/ ReadEOF
    \/ \E w \in Words : ReadLine(w)
    \/ \E n \in 1..MaxStages : \E bg \in BOOLEAN : add_job(n, bg)
    \/ jobs_builtin
    \/ other_builtin
    \/ exit_builtin
    \/ bad_recall
    \/ \E d \in Designators : \E n \in RecallArgs : recall_rejected(d, n)
    \/ \E d \in Designators : \E n \in RecallArgs : recall_faults(d, n)
    \/ \E d \in Designators : \E n \in RecallArgs :
           \E what \in {"spawn_failed", "pipe_failed"} : recall_fails(d, n, what)
    \/ \E arg \in Args : fg_builtin(arg)
    \/ fg_continue
    \/ \E arg \in Args : bg_builtin(arg)
    \/ bg_continue
    \/ \E arg \in Args : kill_builtin(arg)
    \/ \E arg \in Args : stop_builtin(arg)
    \/ \E what \in {"spawn_failed", "pipe_failed"} : launch_fails(what)
    \/ abandon_job
    \/ record_pid
    \/ wait_fatal
    \/ \E more \in BOOLEAN : wait_return(more)
    \/ cleanup
    \/ \E p \in Pids : ChildExit(p)
    \/ KeyboardStop
    \/ KeyboardInterrupt

\* Every outcome of the reconciler's over-long scan, for up to MaxNoisyPid
\* processes, which may change the terminal modes.
Next ==
    \/ Common
    \/ \E m \in TtyModes : ChildSetsTty(m)
    \/ spawn_stage(MaxNoisyPid)
    \/ \E d \in Designators : \E n \in RecallArgs : recall_spawn(d, n, MaxNoisyPid)
    \/ wait_reap(TRUE)
    \/ sigchld_handler(TRUE)

Spec == Init /\ [][Next]_vars

\* The runs in which the scan's reads of unrecorded memory never equal a
\* child's pid and no child touches the terminal modes, for up to MaxPid
\* processes.
NextExact ==
    \/ Common
    \/ spawn_stage(MaxPid)
    \/ \E d \in Designators : \E n \in RecallArgs : recall_spawn(d, n, MaxPid)
    \/ wait_reap(FALSE)
    \/ sigchld_handler(FALSE)

SpecExact == Init /\ [][NextExact]_vars

\* ------------------------------------------------------------------ claims
\* C1: whenever main sits at the prompt (the top of the read loop passed, its
\* assertions included), at most one job of the registry has status
\* FOREGROUND; jobs whose processes were all reaped are not even counted.
C1_OneForegroundAtPrompt ==
    pc = "readline" => Cardinality({a \in LiveJobs : MustWait(heap[a])}) <= 1

\* C2: run_command never returns to main while a job of the registry is
\* FOREGROUND with num_processes_alive > 0.
C2_ReturnsWhenForegroundDone ==
    pc = "cleanup" => \A a \in LiveJobs : ~MustWait(heap[a])

\* C3: for every live job, num_processes_alive is the number of its recorded
\* pids whose exit waitpid has not reported yet.
C3_AliveCountsUnreaped ==
    \A a \in LiveJobs :
        heap[a].num_processes_alive =
            Cardinality({p \in Range(heap[a].pids) : proc[p].st # "reaped"})

\* C4: in every step, the live jobs keep distinct jids (each registered under
\* its own jid, no record under two ids), and an add_job step hands out the
\* smallest id no live job held before the step.
C4_UniqueSmallestJid ==
    [][/\ \A i, k \in Jids :
            (i # k /\ jid2job'[i] # NULL /\ jid2job'[k] # NULL) => jid2job'[i] # jid2job'[k]
       /\ \A i \in Jids : jid2job'[i] # NULL => heap'[jid2job'[i]].jid = i
       /\ ev'.op = "add_job" =>
             /\ jid2job[ev'.jid] = NULL
             /\ \A k \in 1..(ev'.jid - 1) : jid2job[k] # NULL
             /\ jid2job'[ev'.jid] = ev'.job]_vars

\* C4 witness: add_job hands out id 1 while a job holds id 2, so id 1 was held
\* when that job was added and has been released since.
C4_Witness ==
    /\ ev.op = "add_job" /\ ev.jid = 1
    /\ jid2job[2] # NULL /\ heap[jid2job[2]].num_processes_alive = 1
    /\ \E p \in Range(heap[jid2job[2]].pids) : proc[p].st = "running"

\* C5: SIGCHLD is blocked whenever the main flow is about to add a job, spawn
\* or record a stage, change a job's status, or delete jobs (on a failure
\* path or in main's cleanup).
C5_BlockedWhileMutating ==
    (\/ pc \in {"pipeline", "stage", "record", "spawn_failed", "pipe_failed"}
     \/ (pc = "cleanup" /\ Finished # {})) => blocked

\* C6: a kill or stop step on a job counted alive signals every recorded
\* process of the job that has not terminated (SIGKILL ends it, SIGSTOP stops
\* it), and stop leaves the job STOPPED.
C6_GroupSignalled ==
    [][ev'.op \in {"kill", "stop"} =>
          LET a == ev'.job IN
          heap[a].num_processes_alive >= 1 =>
             /\ \A p \in Range(heap[a].pids) :
                    proc[p].st \in {"running", "stopped"} =>
                        proc'[p].st = IF ev'.op = "kill" THEN "zombie" ELSE "stopped"
             /\ ev'.op = "stop" => heap'[a].status = "STOPPED"]_vars

\* C6 witness: one stop made both processes of a two-stage pipeline stop.
C6_Witness ==
    /\ ev.op = "stop"
    /\ heap[ev.job].status = "STOPPED"
    /\ Len(heap[ev.job].pids) = 2
    /\ \A p \in Range(heap[ev.job].pids) : proc[p].st = "stopped" /\ proc[p].pend = "StopSTOP"

\* C7: the announcement of a background job is printed at most once.
C7_AnnouncedOnce ==
    \A a \in LiveJobs : heap[a].announced <= 1

\* C8: an fg step on a job holding a saved snapshot hands the terminal to the
\* job's group with that snapshot, otherwise with none; it clears the saved
\* flag, leaves the job FOREGROUND and the terminal with its group, and sends
\* no signal; the waiter is entered, after the SIGCONT, with both still so.
C8_FgHandsSnapshot ==
    [][/\ ev'.op = "fg" =>
             LET a == ev'.job IN
             /\ heap[a].termStateIsSaved =>
                    ev'.snap = heap[a].saved_tty_state /\ ttyModes' = heap[a].saved_tty_state
             /\ ~heap[a].termStateIsSaved => ev'.snap = "none" /\ ttyModes' = ttyModes
             /\ ~heap'[a].termStateIsSaved
             /\ heap'[a].status = "FOREGROUND"
             /\ ttyOwner' = heap'[a].pgid
             /\ proc' = proc
             /\ pc' = "fg_cont"
       /\ (pc = "fg_cont" /\ pc' = "wait") =>
             /\ heap[waitJ.job].status = "FOREGROUND"
             /\ ttyOwner = heap[waitJ.job].pgid
             /\ ev'.sig = "SIGCONT"]_vars

\* C8 witness: fg restored a raw snapshot onto a terminal the shell held cooked.
C8_Witness ==
    /\ ev.op = "fg" /\ ev.snap = "raw"
    /\ pc = "fg_cont" /\ blocked
    /\ ttyModes = "raw" /\ shellTty = "cooked"
    /\ heap[ev.job].status = "FOREGROUND" /\ ~heap[ev.job].termStateIsSaved

\* C9: jobs prints no BACKGROUND job that spawned processes and has none
\* counted alive.
C9_JobsListsNoFinishedJob ==
    ev.op = "jobs" =>
        \A a \in ev.listed :
            (heap[a].status = "BACKGROUND" /\ heap[a].pids # <<>>) =>
                heap[a].num_processes_alive # 0

\* C10: a reconciler step for a stop of a process recorded in a FOREGROUND
\* job saves a snapshot for the job (the modes of that moment when the stop is
\* attributed to this job alone), leaves it STOPPED and the terminal with the
\* shell in the shell's modes, and prints the job iff the signal was SIGTSTP;
\* once its job is not FOREGROUND the waiter's next step is its return, with
\* no further waitpid.
C10_StopOfForegroundJob ==
    [][/\ (ev'.op \in {"sigchld", "waitpid"} /\ ev'.obs \in StopObs) =>
             \A a \in Owners(ev'.pid) :
                 heap[a].status = "FOREGROUND" =>
                    /\ heap'[a].termStateIsSaved
                    /\ ev'.hit = {a} => heap'[a].saved_tty_state = ttyModes
                    /\ heap'[a].status = "STOPPED"
                    /\ ttyOwner' = ShellPgrp /\ ttyModes' = shellTty
                    /\ a \in ev'.printed <=> ev'.obs = "StopTSTP"
       /\ (pc = "wait" /\ heap[waitJ.job].status # "FOREGROUND" /\ ev'.op # "none") =>
             ev'.op = "wait_return"]_vars

\* C10 witness: the waiter's waitpid reported a keyboard stop of its job while
\* the terminal was raw; the job is STOPPED with that snapshot, it was printed,
\* and the stop of its other process is still unreported.
C10_Witness ==
    /\ pc = "wait" /\ ev.op = "waitpid" /\ ev.obs = "StopTSTP"
    /\ ev.hit = {waitJ.job} /\ waitJ.job \in ev.printed
    /\ heap[waitJ.job].status = "STOPPED"
    /\ heap[waitJ.job].termStateIsSaved /\ heap[waitJ.job].saved_tty_state = "raw"
    /\ ttyOwner = ShellPgrp
    /\ \E p \in Range(heap[waitJ.job].pids) : proc[p].pend = "StopTSTP"

\* C11: after the launch of a stage failed, the job of the pipeline is gone
\* from the registry altogether: at the return that follows the failure it is
\* reachable neither through jid2job nor through job_list.
C11_AbandonedJobUnlinked ==
    ev.op = "delete_job" =>
        /\ ev.job \notin Range(job_list)
        /\ \A i \in Jids : jid2job[i] # ev.job

\* C12: fg, kill and stop given an id that names no job created before the
\* command line (here the id of the job add_job made for the builtin's own
\* pipeline, the smallest id unused when the line was typed) change nothing:
\* no job record, no process and no terminal owner.
C12_UnknownIdChangesNothing ==
    [][(/\ pc = "stage"
        /\ heap[cur.job].pids = <<>>
        /\ ev'.op \in {"fg", "kill", "stop"}
        /\ ev'.job = cur.job)
       => (heap' = heap /\ proc' = proc /\ ttyOwner' = ttyOwner)]_vars

\* C13: a job creation that finds every job id in use does not end the
\* shell: add_job never aborts.
C13_FullTableIsRecoverable == ev.op # "abort_maxjobs"

\* C14: when a stage of a pipeline names a builtin, no stage of that pipeline
\* has been spawned: the builtin runs with no process recorded for the job of
\* its pipeline.
C14_BuiltinPipelineSpawnsNothing ==
    [][(pc = "stage" /\ ev'.op \in {"jobs", "builtin", "exit", "fg", "fg_nojob", "bg",
                                     "bg_nojob", "bg_running", "kill", "kill_nojob",
                                     "stop", "stop_nojob"})
       => heap[cur.job].pids = <<>>]_vars

\* C16: wait_for_job is always entered with SIGCHLD blocked: its entry
\* assertion never fails, on the path from run_command and on the paths from
\* fg and bg, in the first pipeline of a command line and in a later one.
C16_WaitEnteredBlocked == ev.op # "assert_blocked"

\* C17: an observation whose pid the reconciler finds in no job is reported:
\* whenever the scan of an intact job_list matched no job, a message was
\* printed, also with a non-empty job_list.
C17_UnknownPidReported ==
    (ev.op \in {"sigchld", "waitpid"} /\ ev.hit = {} /\ ~Hazard) => ev.report # "none"

\* C18: a job holds a saved terminal snapshot only while it is stopped:
\* termStateIsSaved implies status == STOPPED for every job of the registry.
C18_SavedOnlyWhileStopped ==
    \A a \in LiveJobs : heap[a].termStateIsSaved => heap[a].status = "STOPPED"

\* C19: a reconciler step that observes the end of a process of a Foreground
\* job, by exit or by a fatal signal, decrements the job's
\* num_processes_alive and, in the same step, samples the terminal state and
\* gives the terminal back to the shell.
C19_ForegroundEndReturnsTerminal ==
    [][(/\ ev'.op \in {"sigchld", "waitpid"}
        /\ ev'.obs \in {"Exited", "Signaled"}
        /\ \E a \in ev'.hit : heap[a].status = "FOREGROUND")
       => /\ \A a \in ev'.hit : heap'[a].num_processes_alive = heap[a].num_processes_alive - 1
          /\ ttyOwner' = ShellPgrp
          /\ shellTty' = ttyModes]_vars

\* C15: a history recall whose number is out of range ("!n" with n < 1 or n
\* beyond the retained lines, "!-n" with n reaching past the oldest line) ends
\* with an error and no effect: no process is spawned and no job record
\* changes.
C15_OutOfRangeRecallRejected ==
    [][(/\ ev'.design # "none"
        /\ IF ev'.design = "!-n" THEN ev'.n > Len(history) - 1
           ELSE ev'.n < 1 \/ ev'.n > Len(history))
       => (ev'.op = "recall_rejected" /\ proc' = proc /\ heap' = heap)]_vars

\* C20: a recall that resolves to a retained line whose first word is a builtin does
\* not go on to the spawn code: no process is created and no launch is tried
\* for the recalled word.
C20_RecalledBuiltinNotSpawned ==
    [][(/\ ev'.design # "none" /\ ev'.word = "builtin"
        /\ IF ev'.design = "!-n" THEN ev'.n <= Len(history) - 1
           ELSE ev'.n >= 1 /\ ev'.n <= Len(history))
       => (ev'.op \notin {"spawn", "spawn_failed", "pipe_failed"} /\ proc' = proc)]_vars

\* C21: a builtin adds no job to the registry: every job that jobs prints
\* belongs to an external pipeline, it has at least one recorded process.
C21_JobsListsOnlySpawnedPipelines ==
    ev.op = "jobs" => \A a \in ev.listed : heap[a].pids # <<>>

\* C22: whenever main reaches the top of its read loop the terminal belongs
\* to the shell's process group: the assertion there never fails.
C22_TerminalOwnedAtTop == ev.op # "assert_tty"

\* C23: wait_for_job on a job whose processes have all exited or stopped
\* returns normally: from such a state it never takes the fatal
\* "waitpid failed" path.
C23_WaitNeverFatal ==
    [][(pc = "wait" /\ \A p \in Range(heap[waitJ.job].pids) : proc[p].st # "running")
       => ev'.op # "fatal_waitpid"]_vars

\* C24: while wait_for_job waits for a job that is FOREGROUND with
\* num_processes_alive > 0, the terminal belongs to that job's process group.
C24_WaitedJobOwnsTerminal ==
    (pc = "wait" /\ MustWait(heap[waitJ.job])) => ttyOwner = heap[waitJ.job].pgid

====
